---- MODULE Spec2Model ----
(***************************************************************************)
(* Swing-trade backtest engine of backtest.py: TradingRules, the indicator *)
(* calculation, the bar-by-bar entry/exit loop of generate_signals, the    *)
(* performance reduction and SwingTradeBacktest.run; and the screening     *)
(* function get_data_and_screen_advanced of screening.py.                  *)
(*                                                                         *)
(* Numbers.  Prices are positive integers.  Every derived float of the     *)
(* code (a rolling mean, a slope, a price times a percentage) is kept as   *)
(* an exact fraction [n, d] with d > 0; pandas' NaN is the fraction with   *)
(* d = 0, and every comparison with NaN is FALSE, as in pandas/numpy.      *)
(* Percentages of TradingRules are integers over a fixed denominator:      *)
(* stop_loss_percentage 0.98 is 98 (over 100), ma_slope_threshold 0.5 is 5 *)
(* (over 10), pullback_tolerance 0.995 is 995 (over 1000).                 *)
(*                                                                         *)
(* Windows.  The rolling windows are attributes of the rules object; the   *)
(* rules explored here carry short windows so that a series of MaxBars     *)
(* bars fills them.                                                        *)
(***************************************************************************)
EXTENDS Integers, Sequences, FiniteSets, TLC

VARIABLES rules, start_date, daily_data, weekly_data, pc, df, i, position,
          entry_signal_date, trades, performance, returned,
          stock_list, close_prices, ticker, result, screened

\* the locals of get_data_and_screen_advanced
screening == <<stock_list, close_prices, ticker, result, screened>>

\* the attributes of a SwingTradeBacktest object and the locals of its methods
backtest == <<rules, start_date, daily_data, weekly_data, df, i, position,
              entry_signal_date, trades, performance, returned>>

vars == <<rules, start_date, daily_data, weekly_data, pc, df, i, position,
          entry_signal_date, trades, performance, returned,
          stock_list, close_prices, ticker, result, screened>>

(* ----------------------------- bounds ---------------------------------- *)

\* longest series the data source returns
MaxBars == 6

\* longest trade list handed to calculate_performance on its own
MaxTrades == 3

\* number of rows (dates) of the frame the batch download returns
MaxDays == 5

(* --------------------------- fractions --------------------------------- *)

NaN == [n |-> 0, d |-> 0]

Frac(a, b) == [n |-> a, d |-> b]

notna(x) == x.d # 0

\* x < y, FALSE when either side is NaN
Lt(x, y) == notna(x) /\ notna(y) /\ x.n * y.d < y.n * x.d

\* x <= y, FALSE when either side is NaN
Le(x, y) == notna(x) /\ notna(y) /\ x.n * y.d <= y.n * x.d

Max(a, b) == IF a >= b THEN a ELSE b

Min(a, b) == IF a <= b THEN a ELSE b

(* ------------------------------ rules ---------------------------------- *)

\* TradingRules(): the attributes __init__ sets, with the defaults' methods and
\* filters; the windows are the short ones of this model.
TradingRules ==
    [ ma_short |-> 2, ma_mid |-> 3, ma_long |-> 5,
      ma_weekly_short |-> 1, ma_weekly_long |-> 2,
      pullback_method |-> "ma_below", pullback_tolerance |-> 995,
      ma_slope_threshold |-> 5, ma_slope_period |-> 1, use_slope_filter |-> TRUE,
      entry_trigger |-> "price_cross_ma5",
      volume_threshold |-> 1, volume_consecutive_days |-> 1, use_volume_filter |-> TRUE,
      use_weekly_filter |-> TRUE,
      stop_loss_method |-> "recent_low", stop_loss_percentage |-> 98,
      stop_loss_lookback |-> 1,
      exit_method |-> "ma5_cross", take_profit_percentage |-> 105,
      exit_timing |-> "next_open" ]

\* the rules objects a caller hands to SwingTradeBacktest: the defaults, and
\* the defaults with documented alternatives of some attributes
NoFilterRules ==
    [TradingRules EXCEPT !.use_weekly_filter = FALSE, !.use_slope_filter = FALSE]

RulesSet ==
    { TradingRules,
      NoFilterRules,
      [NoFilterRules EXCEPT !.stop_loss_method = "percentage", !.use_volume_filter = FALSE],
      [NoFilterRules EXCEPT !.stop_loss_percentage = 100, !.exit_timing = "immediate"],
      [NoFilterRules EXCEPT !.ma_mid = 2, !.pullback_method = "price_touch",
                            !.exit_timing = "immediate"] }

\* the windows and the slope filter of TradingRules() as __init__ sets them,
\* unscaled; the slope threshold in tenths of a percent (0.5 %)
TradingRulesDefaults ==
    [ ma_short |-> 5, ma_mid |-> 20, ma_long |-> 50,
      ma_slope_period |-> 5, ma_slope_threshold |-> 5 ]

\* MA_SHORT, MA_MID, MA_LONG, SLOPE_PERIOD and SLOPE_THRESHOLD of screening.py
\* as the module sets them, unscaled; the threshold in tenths of a percent (1.2 %)
ScreeningParameters ==
    [ ma_short |-> 7, ma_mid |-> 20, ma_long |-> 60,
      ma_slope_period |-> 5, ma_slope_threshold |-> 12 ]

(* ------------------------------ data ----------------------------------- *)

\* Open and Close of a bar
Prices == {1, 2}

\* day numbers: day 0 is a Monday, so d % 7 = 4 is a Friday; the first bar of
\* every series is dated on a Friday
FirstDays == {4}

\* days between two bars of a series: one bar per week, so that a series of
\* MaxBars bars spans the weekly windows as well
DaySteps == {7}

\* rows of stock.history(): one per date, dates strictly increasing
History(len, first, step, o, c) ==
    [k \in 1..len |->
        [ Date |-> first + (k - 1) * step,
          Open |-> o[k], High |-> Max(o[k], c[k]), Low |-> Min(o[k], c[k]),
          Close |-> c[k], Volume |-> 1 ]]

\* None, for a date
NoDate == 0 - 1

(* ------------------- calculate_indicators: helpers --------------------- *)

RECURSIVE SumClose(_, _, _)
\* sum of Close over rows lo..hi of a table
SumClose(tbl, lo, hi) ==
    IF lo > hi THEN 0 ELSE tbl[hi].Close + SumClose(tbl, lo, hi - 1)

\* df['Close'].rolling(window=w).mean() at row k: NaN until the window is full
RollingMean(tbl, k, w) ==
    IF k >= w THEN Frac(SumClose(tbl, k - w + 1, k), w) ELSE NaN

RECURSIVE MinLow(_, _, _)
\* minimum of Low over rows lo..hi (lo <= hi)
MinLow(tbl, lo, hi) ==
    IF lo = hi THEN tbl[hi].Low ELSE Min(tbl[hi].Low, MinLow(tbl, lo, hi - 1))

\* a rolling minimum over the w rows before row k, row k left out
RollingMinLowPrevious(tbl, k, w) ==
    IF k - 1 >= w THEN Frac(MinLow(tbl, k - w, k - 1), 1) ELSE NaN

\* df['Low'].rolling(window=w).min() at row k
RollingMinLow(tbl, k, w) ==
    IF k >= w THEN Frac(MinLow(tbl, k - w + 1, k), 1) ELSE NaN

\* (x - x.shift(p)) / x.shift(p) * 100 for a column of rolling means, where
\* cur is the value at the row and old the value p rows before (NaN when
\* there is no such row); prices are positive, so old.n > 0 when defined
SlopePct(cur, old) ==
    IF notna(cur) /\ notna(old)
    THEN Frac((cur.n * old.d - old.n * cur.d) * 100 * old.d, cur.d * old.d * old.n)
    ELSE NaN

\* number of rows lo..hi whose Volume_Condition holds
RECURSIVE VolumeCount(_, _, _, _)
VolumeCount(tbl, lo, hi, threshold) ==
    IF lo > hi THEN 0
    ELSE (IF tbl[hi].Volume >= threshold THEN 1 ELSE 0)
         + VolumeCount(tbl, lo, hi - 1, threshold)

\* Volume_OK: Volume_Streak (a rolling sum, NaN until the window is full)
\* >= volume_consecutive_days
VolumeOK(tbl, k, r) ==
    /\ k >= r.volume_consecutive_days
    /\ VolumeCount(tbl, k - r.volume_consecutive_days + 1, k, r.volume_threshold)
          >= r.volume_consecutive_days

\* the daily table with the indicator columns generate_signals and
\* check_exit_condition read (MA_short_slope and MA_long_slope are computed by
\* the code and read on no path that completes)
DailyIndicators(tbl, r) ==
    [k \in 1..Len(tbl) |->
        [ Date |-> tbl[k].Date, Open |-> tbl[k].Open, High |-> tbl[k].High,
          Low |-> tbl[k].Low, Close |-> tbl[k].Close, Volume |-> tbl[k].Volume,
          MA_short |-> RollingMean(tbl, k, r.ma_short),
          MA_mid |-> RollingMean(tbl, k, r.ma_mid),
          MA_long |-> RollingMean(tbl, k, r.ma_long),
          MA_mid_slope |->
              SlopePct(RollingMean(tbl, k, r.ma_mid),
                       IF k - r.ma_slope_period >= 1
                       THEN RollingMean(tbl, k - r.ma_slope_period, r.ma_mid)
                       ELSE NaN),
          Volume_OK |-> VolumeOK(tbl, k, r),
          Recent_Low |-> RollingMinLow(tbl, k, r.stop_loss_lookback) ]]

(* weekly table: df.resample('W-FRI').agg(...).dropna() *)

\* label of the W-FRI bin of a date: the first Friday on or after it
WeekLabel(d) == d + ((11 - (d % 7)) % 7)

WeekLabels(tbl) == { WeekLabel(tbl[k].Date) : k \in 1..Len(tbl) }

\* the j-th smallest element of a finite set of integers
Nth(S, j) == CHOOSE x \in S : Cardinality({y \in S : y < x}) = j - 1

\* 'Close': 'last' of the bin labelled w
WeekClose(tbl, w) ==
    LET last == CHOOSE k \in 1..Len(tbl) :
                    /\ WeekLabel(tbl[k].Date) = w
                    /\ \A m \in 1..Len(tbl) : WeekLabel(tbl[m].Date) = w => m <= k
    IN tbl[last].Close

WeeklyBars(tbl) ==
    [j \in 1..Cardinality(WeekLabels(tbl)) |->
        [ Date |-> Nth(WeekLabels(tbl), j),
          Close |-> WeekClose(tbl, Nth(WeekLabels(tbl), j)) ]]

WeeklyIndicators(tbl, r) ==
    LET weekly == WeeklyBars(tbl)
    IN [j \in 1..Len(weekly) |->
          LET ws == RollingMean(weekly, j, r.ma_weekly_short)
              wl == RollingMean(weekly, j, r.ma_weekly_long)
          IN [ Date |-> weekly[j].Date, Close |-> weekly[j].Close,
               MA_weekly_short |-> ws, MA_weekly_long |-> wl,
               Trend_Up |-> Lt(wl, ws) /\ Le(ws, Frac(weekly[j].Close, 1)) ]]

\* check_weekly_trend: Trend_Up of the last weekly row dated on or before date,
\* False when there is none
check_weekly_trend(weekly, date) ==
    LET week_data == SelectSeq(weekly, LAMBDA w : w.Date <= date)
    IN IF Len(week_data) = 0 THEN FALSE ELSE week_data[Len(week_data)].Trend_Up

(* ------------------------ entry and exit rules ------------------------- *)

\* x * m / q for a fraction x and integers m, q > 0 (NaN stays NaN)
Scale(x, m, q) == Frac(x.n * m, x.d * q)

check_pullback(r, current) ==
    IF r.pullback_method = "ma_below"
    THEN Lt(current.MA_short, current.MA_mid)
    ELSE IF r.pullback_method = "price_touch"
    THEN Le(Frac(current.Low, 1), Scale(current.MA_short, r.pullback_tolerance, 1000))
    ELSE IF r.pullback_method = "both"
    THEN /\ Le(Frac(current.Low, 1), Scale(current.MA_short, r.pullback_tolerance, 1000))
         /\ Lt(current.MA_short, current.MA_mid)
    ELSE FALSE

check_entry_trigger(r, current, prev) ==
    IF r.entry_trigger = "price_cross_ma5"
    THEN Le(current.MA_short, Frac(current.High, 1))
    ELSE IF r.entry_trigger = "ma_cross"
    THEN Lt(prev.MA_short, prev.MA_mid) /\ Le(current.MA_mid, current.MA_short)
    ELSE IF r.entry_trigger = "close_above"
    THEN Lt(current.MA_short, Frac(current.Close, 1))
    ELSE FALSE

\* calculate_stop_loss taking the level from the entry price under every method
calculate_stop_loss_from_entry(r, entry_price, current) ==
    Frac(entry_price * r.stop_loss_percentage, 100)

calculate_stop_loss(r, entry_price, current) ==
    IF r.stop_loss_method = "recent_low"
    THEN Scale(current.Recent_Low, r.stop_loss_percentage, 100)
    ELSE IF r.stop_loss_method = "percentage"
    THEN Frac(entry_price * r.stop_loss_percentage, 100)
    ELSE Frac(entry_price * 98, 100)

\* the stop-loss test of check_exit_condition under 'recent_low': the level is
\* taken from the CURRENT row's Recent_Low
RecentLowStopHit(r, current) ==
    Le(Frac(current.Close, 1), Scale(current.Recent_Low, r.stop_loss_percentage, 100))

\* the stop-loss test under 'percentage'
PercentageStopHit(r, current, pos) ==
    Le(Frac(current.Close, 1), Frac(pos.entry_price * r.stop_loss_percentage, 100))

\* the MA-cross test: pd.notna(MA_short) and Close < MA_short
MACrossHit(current) ==
    notna(current.MA_short) /\ Lt(Frac(current.Close, 1), current.MA_short)

\* the take-profit test: High >= entry_price * take_profit_percentage
TakeProfitHit(r, current, pos) ==
    Le(Frac(pos.entry_price * r.take_profit_percentage, 100), Frac(current.High, 1))

\* check_exit_condition.  raised: the call ends in AttributeError, because it
\* reads rules.hold_if_ma5_uptrend (when the recent-low stop is hit) or
\* rules.ma5_exit_price_type (exit_method 'ma5_advanced'), attributes
\* TradingRules does not set.
check_exit_condition(r, current, pos) ==
    IF r.stop_loss_method = "recent_low" /\ RecentLowStopHit(r, current)
    THEN [raised |-> TRUE, should_exit |-> FALSE, exit_reason |-> "None"]
    ELSE IF r.stop_loss_method = "percentage" /\ PercentageStopHit(r, current, pos)
    THEN [raised |-> FALSE, should_exit |-> TRUE, exit_reason |-> "Stop Loss (Percentage)"]
    ELSE IF r.exit_method = "ma5_cross"
    THEN IF MACrossHit(current)
         THEN [raised |-> FALSE, should_exit |-> TRUE, exit_reason |-> "MA_short Cross Exit"]
         ELSE [raised |-> FALSE, should_exit |-> FALSE, exit_reason |-> "None"]
    ELSE IF r.exit_method = "ma5_advanced"
    THEN [raised |-> TRUE, should_exit |-> FALSE, exit_reason |-> "None"]
    ELSE IF r.exit_method = "percentage" /\ TakeProfitHit(r, current, pos)
    THEN [raised |-> FALSE, should_exit |-> TRUE, exit_reason |-> "Take Profit"]
    ELSE [raised |-> FALSE, should_exit |-> FALSE, exit_reason |-> "None"]

\* the entry-signal test of generate_signals on a row (lines 283-303): weekly
\* filter, MA_short/MA_mid/Close defined, pullback, slope, volume, trigger
EntrySignal(r, weekly, current, prev) ==
    /\ ~(r.use_weekly_filter /\ ~check_weekly_trend(weekly, current.Date))
    /\ notna(current.MA_short) /\ notna(current.MA_mid)
    /\ check_pullback(r, current)
    /\ (IF r.use_slope_filter
        THEN notna(current.MA_mid_slope)
             /\ Lt(Frac(r.ma_slope_threshold, 10), current.MA_mid_slope)
        ELSE TRUE)
    /\ (IF r.use_volume_filter THEN current.Volume_OK ELSE TRUE)
    /\ check_entry_trigger(r, current, prev)

\* an exit filled on the deciding row under every exit_timing
ExitFillAtClose(r, d, idx) == [date |-> d[idx].Date, price |-> d[idx].Close]

\* where an exit decided on row idx of table d is filled (lines 311-316)
ExitFill(r, d, idx) ==
    IF r.exit_timing = "next_open" /\ idx + 1 <= Len(d)
    THEN [date |-> d[idx + 1].Date, price |-> d[idx + 1].Open]
    ELSE [date |-> d[idx].Date, price |-> d[idx].Close]

\* the trade dict with profit_pct taken over the exit price
MakeTradePctOverExit(pos, fill, reason) ==
    [ entry_date |-> pos.entry_date, exit_date |-> fill.date,
      entry_price |-> pos.entry_price, exit_price |-> fill.price,
      shares |-> pos.shares,
      profit |-> (fill.price - pos.entry_price) * pos.shares,
      profit_pct |-> Frac((fill.price - pos.entry_price) * 100, fill.price),
      exit_reason |-> reason,
      holding_days |-> fill.date - pos.entry_date ]

\* the trade dict of lines 318-331
MakeTrade(pos, fill, reason) ==
    [ entry_date |-> pos.entry_date, exit_date |-> fill.date,
      entry_price |-> pos.entry_price, exit_price |-> fill.price,
      shares |-> pos.shares,
      profit |-> (fill.price - pos.entry_price) * pos.shares,
      profit_pct |-> Frac((fill.price - pos.entry_price) * 100, pos.entry_price),
      exit_reason |-> reason,
      holding_days |-> fill.date - pos.entry_date ]

(* ----------------------- calculate_performance -------------------------- *)

FAdd(x, y) == Frac(x.n * y.d + y.n * x.d, x.d * y.d)

Abs(a) == IF a < 0 THEN 0 - a ELSE a

\* trades_df[cond]: the rows with profit > 0 (winning) or profit <= 0 (losing)
Winners(ts) == SelectSeq(ts, LAMBDA t : t.profit > 0)

Losers(ts) == SelectSeq(ts, LAMBDA t : t.profit <= 0)

RECURSIVE SumProfit(_, _)
\* trades_df['profit'].cumsum() at row k: the sum of the first k profits
SumProfit(ts, k) == IF k = 0 THEN 0 ELSE ts[k].profit + SumProfit(ts, k - 1)

RECURSIVE SumProfitPct(_, _)
SumProfitPct(ts, k) ==
    IF k = 0 THEN Frac(0, 1) ELSE FAdd(ts[k].profit_pct, SumProfitPct(ts, k - 1))

RECURSIVE SumHolding(_, _)
SumHolding(ts, k) == IF k = 0 THEN 0 ELSE ts[k].holding_days + SumHolding(ts, k - 1)

RECURSIVE RunningMaxFromZero(_, _)
\* a running peak that starts at zero, before the first trade
RunningMaxFromZero(ts, k) ==
    IF k = 1 THEN Max(0, SumProfit(ts, 1))
    ELSE Max(SumProfit(ts, k), RunningMaxFromZero(ts, k - 1))

RECURSIVE RunningMax(_, _)
\* trades_df['cumulative_profit'].cummax() at row k >= 1
RunningMax(ts, k) ==
    IF k = 1 THEN SumProfit(ts, 1) ELSE Max(SumProfit(ts, k), RunningMax(ts, k - 1))

\* the drawdown measured from the peak of the whole list, not the running one
DrawdownFromOverallPeak(ts, k) == SumProfit(ts, k) - RunningMax(ts, Len(ts))

Drawdown(ts, k) == SumProfit(ts, k) - RunningMax(ts, k)

RECURSIVE MinDrawdown(_, _)
\* trades_df['drawdown'].min() over rows 1..k
MinDrawdown(ts, k) ==
    IF k = 1 THEN Drawdown(ts, 1) ELSE Min(Drawdown(ts, k), MinDrawdown(ts, k - 1))

\* .mean() of profit over a non-empty selection, 0 over an empty one
MeanProfit(sel) ==
    IF Len(sel) > 0 THEN Frac(SumProfit(sel, Len(sel)), Len(sel)) ELSE Frac(0, 1)

MeanProfitPct(sel) ==
    IF Len(sel) > 0
    THEN LET t == SumProfitPct(sel, Len(sel)) IN Frac(t.n, t.d * Len(sel))
    ELSE Frac(0, 1)

\* the quotient taken the other way round: abs(avg_loss / avg_profit)
ProfitFactorInverse(avg_profit, avg_loss) ==
    IF avg_loss.n # 0
    THEN Frac(Abs(avg_loss.n * avg_profit.d), Abs(avg_loss.d * avg_profit.n))
    ELSE Frac(0, 1)

\* abs(avg_profit / avg_loss) if avg_loss != 0 else 0
ProfitFactor(avg_profit, avg_loss) ==
    IF avg_loss.n # 0
    THEN Frac(Abs(avg_profit.n * avg_loss.d), Abs(avg_profit.d * avg_loss.n))
    ELSE Frac(0, 1)

\* the dict calculate_performance builds from a non-empty trade list, in the
\* list's own order
Performance(ts) ==
    [ total_trades |-> Len(ts),
      winning_trades |-> Len(Winners(ts)),
      losing_trades |-> Len(Losers(ts)),
      win_rate |-> Frac(Len(Winners(ts)) * 100, Len(ts)),
      total_profit |-> SumProfit(ts, Len(ts)),
      avg_profit |-> MeanProfit(Winners(ts)),
      avg_loss |-> MeanProfit(Losers(ts)),
      avg_profit_pct |-> MeanProfitPct(Winners(ts)),
      avg_loss_pct |-> MeanProfitPct(Losers(ts)),
      max_drawdown |-> MinDrawdown(ts, Len(ts)),
      avg_holding_days |-> Frac(SumHolding(ts, Len(ts)), Len(ts)),
      profit_factor |-> ProfitFactor(MeanProfit(Winners(ts)), MeanProfit(Losers(ts))) ]

\* what calculate_performance returns: None for an empty trade list (line 339),
\* self.performance otherwise (line 378)
calculate_performance(ts) == IF Len(ts) = 0 THEN <<>> ELSE <<Performance(ts)>>

\* what run hands back: the method has no return statement
RunResult(perf) == <<>>

(* ------------------------------ state ---------------------------------- *)

\* start_date values, as day numbers
StartDates == {4, 11}

\* df[df.index >= start_date]: the rows dated on or after start_date
FromStart(table, start) == SelectSeq(table, LAMBDA row : row.Date >= start)

\* df.iloc[k] for a python index k
Row(k) == df[k + 1]

\* SwingTradeBacktest(ticker, start_date, end_date, rules): no data, no trades;
\* None is the empty sequence, the performance attribute does not exist yet
Init ==
    /\ rules \in RulesSet
    /\ start_date \in StartDates
    /\ daily_data = <<>>
    /\ weekly_data = <<>>
    /\ pc = "fetch_data"
    /\ df = <<>>
    /\ i = 0
    /\ position = <<>>
    /\ entry_signal_date = NoDate
    /\ trades = <<>>
    /\ performance = <<>>
    /\ returned = <<>>
    /\ stock_list = <<>>
    /\ close_prices = <<>>
    /\ ticker = 0
    /\ result = <<>>
    /\ screened = <<>>

\* fetch_data without the emptiness test of lines 115-116
FetchDataNoRaise ==
    /\ pc = "fetch_data"
    /\ \E len \in 0..MaxBars, first \in FirstDays, step \in DaySteps :
         \E o \in [1..len -> Prices], c \in [1..len -> Prices] :
            /\ daily_data' = History(len, first, step, o, c)
            /\ pc' = "calculate_indicators"
    /\ UNCHANGED <<rules, start_date, weekly_data, df, i, position, entry_signal_date,
                   trades, performance, returned>>
    /\ UNCHANGED screening

\* fetch_data: the data source returns some series; an empty one raises ValueError
FetchData ==
    /\ pc = "fetch_data"
    /\ \E len \in 0..MaxBars, first \in FirstDays, step \in DaySteps :
         \E o \in [1..len -> Prices], c \in [1..len -> Prices] :
            /\ daily_data' = History(len, first, step, o, c)
            /\ pc' = IF len = 0 THEN "raised" ELSE "calculate_indicators"
    /\ UNCHANGED <<rules, start_date, weekly_data, df, i, position, entry_signal_date,
                   trades, performance, returned>>
    /\ UNCHANGED screening

\* calculate_indicators
CalculateIndicators ==
    /\ pc = "calculate_indicators"
    /\ daily_data' = DailyIndicators(daily_data, rules)
    /\ weekly_data' = WeeklyIndicators(daily_data, rules)
    /\ pc' = "generate_signals"
    /\ UNCHANGED <<rules, start_date, df, i, position, entry_signal_date, trades,
                   performance, returned>>
    /\ UNCHANGED screening

\* generate_signals starting from a fresh trade list on every call
BeginSignalsResetsTrades ==
    /\ pc = "generate_signals"
    /\ df' = FromStart(daily_data, start_date)
    /\ position' = <<>>
    /\ entry_signal_date' = NoDate
    /\ trades' = <<>>
    /\ i' = 1
    /\ pc' = "loop"
    /\ UNCHANGED <<rules, start_date, daily_data, weekly_data, performance, returned>>
    /\ UNCHANGED screening

\* generate_signals, lines 254-258: the locals before the loop
BeginSignals ==
    /\ pc = "generate_signals"
    /\ df' = FromStart(daily_data, start_date)
    /\ position' = <<>>
    /\ entry_signal_date' = NoDate
    /\ i' = 1
    /\ pc' = "loop"
    /\ UNCHANGED <<rules, start_date, daily_data, weekly_data, trades, performance,
                   returned>>
    /\ UNCHANGED screening

\* the fill without line 279: the signal date is not reset
FillEntryKeepsSignal ==
    /\ pc = "loop" /\ i < Len(df)
    /\ position = <<>>
    /\ entry_signal_date = Row(i - 1).Date
    /\ position' = << [ entry_date |-> Row(i).Date,
                        entry_price |-> Row(i).Open,
                        stop_loss |-> calculate_stop_loss(rules, Row(i).Open, Row(i - 1)),
                        shares |-> 1 ] >>
    /\ i' = i + 1
    /\ UNCHANGED <<rules, start_date, daily_data, weekly_data, df, pc, trades,
                   entry_signal_date, performance, returned>>
    /\ UNCHANGED screening

\* the fill without the continue of line 280: the exit check runs on the fill
\* row as well
FillEntryChecksExit ==
    /\ pc = "loop" /\ i < Len(df)
    /\ position = <<>>
    /\ entry_signal_date = Row(i - 1).Date
    /\ LET pos == [ entry_date |-> Row(i).Date,
                    entry_price |-> Row(i).Open,
                    stop_loss |-> calculate_stop_loss(rules, Row(i).Open, Row(i - 1)),
                    shares |-> 1 ]
           res == check_exit_condition(rules, Row(i), pos)
       IN IF ~res.raised /\ res.should_exit
          THEN /\ trades' = Append(trades,
                      MakeTrade(pos, ExitFill(rules, df, i + 1), res.exit_reason))
               /\ position' = <<>>
          ELSE /\ trades' = trades
               /\ position' = <<pos>>
    /\ entry_signal_date' = NoDate
    /\ i' = i + 1
    /\ UNCHANGED <<rules, start_date, daily_data, weekly_data, df, pc,
                   performance, returned>>
    /\ UNCHANGED screening

\* one iteration with no position and a signal dated on the previous row:
\* the entry is filled at this row's Open (lines 268-280)
FillEntry ==
    /\ pc = "loop" /\ i < Len(df)
    /\ position = <<>>
    /\ entry_signal_date = Row(i - 1).Date
    /\ position' = << [ entry_date |-> Row(i).Date,
                        entry_price |-> Row(i).Open,
                        stop_loss |-> calculate_stop_loss(rules, Row(i).Open, Row(i - 1)),
                        shares |-> 1 ] >>
    /\ entry_signal_date' = NoDate
    /\ i' = i + 1
    /\ UNCHANGED <<rules, start_date, daily_data, weekly_data, df, pc, trades,
                   performance, returned>>
    /\ UNCHANGED screening

\* one iteration with no position and no signal to fill: the entry signal is
\* evaluated on this row (lines 282-304)
EvaluateEntry ==
    /\ pc = "loop" /\ i < Len(df)
    /\ position = <<>>
    /\ entry_signal_date # Row(i - 1).Date
    /\ entry_signal_date' =
          IF EntrySignal(rules, weekly_data, Row(i), Row(i - 1))
          THEN Row(i).Date ELSE entry_signal_date
    /\ i' = i + 1
    /\ UNCHANGED <<rules, start_date, daily_data, weekly_data, df, pc, position, trades,
                   performance, returned>>
    /\ UNCHANGED screening

\* an exit check whose exception takes the recorded trades with it
ExitRaisesDropsTrades ==
    /\ pc = "loop" /\ i < Len(df)
    /\ position # <<>>
    /\ check_exit_condition(rules, Row(i), position[1]).raised
    /\ pc' = "raised"
    /\ trades' = <<>>
    /\ UNCHANGED <<rules, start_date, daily_data, weekly_data, df, i, position,
                   entry_signal_date, performance, returned>>
    /\ UNCHANGED screening

\* one iteration with a position whose exit check raises: generate_signals and
\* run end with the exception
ExitRaises ==
    /\ pc = "loop" /\ i < Len(df)
    /\ position # <<>>
    /\ check_exit_condition(rules, Row(i), position[1]).raised
    /\ pc' = "raised"
    /\ UNCHANGED <<rules, start_date, daily_data, weekly_data, df, i, position,
                   entry_signal_date, trades, performance, returned>>
    /\ UNCHANGED screening

\* an exit after which the entry signal is evaluated on the same row
ExitPositionThenSignal ==
    /\ pc = "loop" /\ i < Len(df)
    /\ position # <<>>
    /\ LET res == check_exit_condition(rules, Row(i), position[1])
       IN /\ ~res.raised /\ res.should_exit
          /\ trades' = Append(trades,
                 MakeTrade(position[1], ExitFill(rules, df, i + 1), res.exit_reason))
    /\ position' = <<>>
    /\ entry_signal_date' =
          IF EntrySignal(rules, weekly_data, Row(i), Row(i - 1))
          THEN Row(i).Date ELSE entry_signal_date
    /\ i' = i + 1
    /\ UNCHANGED <<rules, start_date, daily_data, weekly_data, df, pc,
                   performance, returned>>
    /\ UNCHANGED screening

\* one iteration with a position that is closed: the trade is recorded (lines 310-334)
ExitPosition ==
    /\ pc = "loop" /\ i < Len(df)
    /\ position # <<>>
    /\ LET res == check_exit_condition(rules, Row(i), position[1])
       IN /\ ~res.raised /\ res.should_exit
          /\ trades' = Append(trades,
                 MakeTrade(position[1], ExitFill(rules, df, i + 1), res.exit_reason))
    /\ position' = <<>>
    /\ i' = i + 1
    /\ UNCHANGED <<rules, start_date, daily_data, weekly_data, df, pc, entry_signal_date,
                   performance, returned>>
    /\ UNCHANGED screening

\* one iteration with a position that stays open
HoldPosition ==
    /\ pc = "loop" /\ i < Len(df)
    /\ position # <<>>
    /\ LET res == check_exit_condition(rules, Row(i), position[1])
       IN ~res.raised /\ ~res.should_exit
    /\ i' = i + 1
    /\ UNCHANGED <<rules, start_date, daily_data, weekly_data, df, pc, position,
                   entry_signal_date, trades, performance, returned>>
    /\ UNCHANGED screening

\* an end of the loop that fills a signal pending from the last row at that
\* row's Close
EndSignalsFillsPending ==
    /\ pc = "loop" /\ i >= Len(df)
    /\ position' =
          IF Len(df) >= 1 /\ position = <<>> /\ entry_signal_date = df[Len(df)].Date
          THEN << [ entry_date |-> df[Len(df)].Date,
                    entry_price |-> df[Len(df)].Close,
                    stop_loss |-> calculate_stop_loss(rules, df[Len(df)].Close, df[Len(df)]),
                    shares |-> 1 ] >>
          ELSE position
    /\ pc' = "calculate_performance"
    /\ UNCHANGED <<rules, start_date, daily_data, weekly_data, df, i,
                   entry_signal_date, trades, performance, returned>>
    /\ UNCHANGED screening

\* the loop has run over range(1, len(df)): generate_signals returns
EndSignals ==
    /\ pc = "loop" /\ i >= Len(df)
    /\ pc' = "calculate_performance"
    /\ UNCHANGED <<rules, start_date, daily_data, weekly_data, df, i, position,
                   entry_signal_date, trades, performance, returned>>
    /\ UNCHANGED screening

\* calculate_performance building a record of zeros for an empty trade list
CalculatePerformanceZeroRecord ==
    /\ pc = "calculate_performance"
    /\ performance' = IF Len(trades) = 0
                      THEN << [ total_trades |-> 0, total_profit |-> 0 ] >>
                      ELSE <<Performance(trades)>>
    /\ pc' = "print_performance"
    /\ UNCHANGED <<rules, start_date, daily_data, weekly_data, df, i, position,
                   entry_signal_date, trades, returned>>
    /\ UNCHANGED screening

\* calculate_performance: None for an empty trade list (self.performance is not
\* set), the summary otherwise
CalculatePerformance ==
    /\ pc = "calculate_performance"
    /\ performance' = IF Len(trades) = 0 THEN performance ELSE <<Performance(trades)>>
    /\ pc' = "print_performance"
    /\ UNCHANGED <<rules, start_date, daily_data, weekly_data, df, i, position,
                   entry_signal_date, trades, returned>>
    /\ UNCHANGED screening

\* print_performance and the end of run (the charts change no state)
Return ==
    /\ pc = "print_performance"
    /\ returned' = RunResult(performance)
    /\ pc' = "returned"
    /\ UNCHANGED <<rules, start_date, daily_data, weekly_data, df, i, position,
                   entry_signal_date, trades, performance>>
    /\ UNCHANGED screening

Next ==
    \/ FetchData
    \/ CalculateIndicators
    \/ BeginSignals
    \/ FillEntry
    \/ EvaluateEntry
    \/ ExitRaises
    \/ ExitPosition
    \/ HoldPosition
    \/ EndSignals
    \/ CalculatePerformance
    \/ Return

Spec == Init /\ [][Next]_vars

(* ----------------------- run on a longer series ------------------------ *)

\* rules under which a series of MaxBars + 1 bars holds two trades: MA_short
\* and MA_mid over two bars and the price-touch pullback, with the exit filled
\* on the deciding bar or at the next open, and with the take-profit exit and
\* a stop-loss level equal to the recent low itself
TouchRules ==
    [NoFilterRules EXCEPT !.ma_mid = 2, !.pullback_method = "price_touch",
                          !.exit_timing = "immediate"]

StopAtLowRules ==
    [TouchRules EXCEPT !.stop_loss_percentage = 100, !.exit_method = "percentage"]

LongRules ==
    { TouchRules,
      [TouchRules EXCEPT !.exit_timing = "next_open"],
      StopAtLowRules }

\* an instance whose trade list is one list shared by all instances, holding
\* the trade an earlier instance recorded
InitLongSharedTrades ==
    /\ rules \in LongRules
    /\ start_date \in FirstDays
    /\ daily_data = <<>>
    /\ weekly_data = <<>>
    /\ pc = "fetch_data"
    /\ df = <<>>
    /\ i = 0
    /\ position = <<>>
    /\ entry_signal_date = NoDate
    /\ trades = << MakeTrade([entry_date |-> 11, entry_price |-> 1, shares |-> 1],
                             [date |-> 18, price |-> 2], "Take Profit") >>
    /\ performance = <<>>
    /\ returned = <<>>
    /\ stock_list = <<>>
    /\ close_prices = <<>>
    /\ ticker = 0
    /\ result = <<>>
    /\ screened = <<>>

\* SwingTradeBacktest(ticker, start_date, end_date, rules) with such rules
InitLong ==
    /\ rules \in LongRules
    /\ start_date \in FirstDays
    /\ daily_data = <<>>
    /\ weekly_data = <<>>
    /\ pc = "fetch_data"
    /\ df = <<>>
    /\ i = 0
    /\ position = <<>>
    /\ entry_signal_date = NoDate
    /\ trades = <<>>
    /\ performance = <<>>
    /\ returned = <<>>
    /\ stock_list = <<>>
    /\ close_prices = <<>>
    /\ ticker = 0
    /\ result = <<>>
    /\ screened = <<>>

\* fetch_data: the data source returns a series of MaxBars + 1 bars
FetchLongData ==
    /\ pc = "fetch_data"
    /\ \E first \in FirstDays, step \in DaySteps :
         \E o \in [1..(MaxBars + 1) -> Prices], c \in [1..(MaxBars + 1) -> Prices] :
            daily_data' = History(MaxBars + 1, first, step, o, c)
    /\ pc' = "calculate_indicators"
    /\ UNCHANGED <<rules, start_date, weekly_data, df, i, position, entry_signal_date,
                   trades, performance, returned>>
    /\ UNCHANGED screening

NextLong ==
    \/ FetchLongData
    \/ CalculateIndicators
    \/ BeginSignals
    \/ FillEntry
    \/ EvaluateEntry
    \/ ExitRaises
    \/ ExitPosition
    \/ HoldPosition
    \/ EndSignals
    \/ CalculatePerformance
    \/ Return

SpecLong == InitLong /\ [][NextLong]_vars

(* ------------------- methods invoked again after run -------------------- *)

\* an instance under the rules with the take-profit exit
InitAgain ==
    /\ InitLong
    /\ rules = StopAtLowRules

\* after run has returned the caller invokes generate_signals again on the
\* same instance (and then, as run does, calculate_performance and
\* print_performance): self.trades is not reset.  The guard bounds the list.
GenerateSignalsAgain ==
    /\ pc = "returned"
    /\ Len(trades) < MaxTrades
    /\ pc' = "generate_signals"
    /\ UNCHANGED <<rules, start_date, daily_data, weekly_data, df, i, position,
                   entry_signal_date, trades, performance, returned>>
    /\ UNCHANGED screening

\* after run has returned the caller invokes calculate_performance again
CalculatePerformanceAgain ==
    /\ pc = "returned"
    /\ pc' = "calculate_performance"
    /\ UNCHANGED <<rules, start_date, daily_data, weekly_data, df, i, position,
                   entry_signal_date, trades, performance, returned>>
    /\ UNCHANGED screening

NextAgain ==
    \/ FetchLongData
    \/ CalculateIndicators
    \/ BeginSignals
    \/ FillEntry
    \/ EvaluateEntry
    \/ ExitRaises
    \/ ExitPosition
    \/ HoldPosition
    \/ EndSignals
    \/ CalculatePerformance
    \/ Return
    \/ GenerateSignalsAgain
    \/ CalculatePerformanceAgain

SpecAgain == InitAgain /\ [][NextAgain]_vars

(* ------------- calculate_performance on a given trade list -------------- *)

\* exit dates and exit prices of the trades of such a list
ExitDays == {1, 2, 3}

ExitPrices == {1, 2, 3, 4}

\* a trade dict as generate_signals builds it: one share bought at 2 the day
\* before it is sold on day x at price p
TradeOf(x, p) ==
    MakeTrade([ entry_date |-> x - 1, entry_price |-> 2, stop_loss |-> NaN, shares |-> 1 ],
              [ date |-> x, price |-> p ], "MA_short Cross Exit")

\* self.trades: any list of at most MaxTrades such trades, in any order
TradeLists ==
    UNION { [1..n -> { TradeOf(x, p) : x \in ExitDays, p \in ExitPrices }] :
              n \in 0..MaxTrades }

\* a SwingTradeBacktest object holding a trade list, about to be reduced
InitPerformance ==
    /\ rules = TradingRules
    /\ start_date \in StartDates
    /\ daily_data = <<>>
    /\ weekly_data = <<>>
    /\ pc = "calculate_performance"
    /\ df = <<>>
    /\ i = 0
    /\ position = <<>>
    /\ entry_signal_date = NoDate
    /\ trades \in TradeLists
    /\ performance = <<>>
    /\ returned = <<>>
    /\ stock_list = <<>>
    /\ close_prices = <<>>
    /\ ticker = 0
    /\ result = <<>>
    /\ screened = <<>>

NextPerformance ==
    \/ CalculatePerformance
    \/ Return

SpecPerformance == InitPerformance /\ [][NextPerformance]_vars

(* -------------------- screening.py: the parameters ---------------------- *)

\* the module's windows, shortened so that a frame of MaxDays rows fills them:
\* as in the source MA_SHORT < MA_MID < MA_LONG and MA_MID + SLOPE_PERIOD is
\* below MA_LONG; SLOPE_THRESHOLD is 1.2 (%), kept as 12 over 10
MA_SHORT == 2

MA_MID == 3

MA_LONG == 5

SLOPE_THRESHOLD == Frac(12, 10)

SLOPE_PERIOD == 1

(* ------------------------ screening.py: the data ------------------------ *)

\* the universe: codes and names of the stock_list items, in list order
Codes == <<"A", "B", "C">>

Names == <<"Alpha", "Beta", "Gamma">>

\* stock_list: the first n items of the universe
StockLists ==
    { [k \in 1..n |-> [code |-> Codes[k], name |-> Names[k]]] : n \in 1..Len(Codes) }

\* the lists taken through the whole function, download included: the ones
\* shorter than the universe (the whole universe is taken through the sort,
\* see InitSorting)
ShortLists == { list \in StockLists : Len(list) < Len(Codes) }

\* tickers = [item["code"] for item in stock_list]
tickers(list) == [k \in 1..Len(list) |-> list[k].code]

\* ticker_map.get(ticker, ticker)
ticker_map(list, code) ==
    IF \E k \in 1..Len(list) : list[k].code = code
    THEN list[CHOOSE k \in 1..Len(list) : list[k].code = code].name
    ELSE code

\* one column of data["Close"], over the last MaxDays dates: a ticker with
\* bars closes has NaN on the dates before its first bar; bars = 0 is a ticker
\* the data source has nothing for
Column(bars, c) ==
    [k \in 1..MaxDays |->
        IF k <= MaxDays - bars THEN NaN ELSE Frac(c[k - (MaxDays - bars)], 1)]

Columns ==
    UNION { { Column(bars, c) : c \in [1..bars -> Prices] } : bars \in 0..MaxDays }

\* the frames yf.download can return for a ticker list: a Close column for
\* some of the tickers (a ticker without a column raises KeyError on lookup)
Downloads(list) ==
    UNION { [S -> Columns] : S \in SUBSET { list[k].code : k \in 1..Len(list) } }

\* the frame has no row at all: its index is the union of the dates of the
\* tickers' bars, so it is empty when every ticker of the list has its column
\* and none has a bar (a frame that lacks a ticker's column holds that
\* ticker's data under another label, and has rows)
EmptyFrame(list, frame) ==
    \A j \in 1..Len(list) :
        /\ list[j].code \in DOMAIN frame
        /\ \A k \in 1..Len(frame[list[j].code]) : ~notna(frame[list[j].code][k])

(* --------------------- screening.py: the indicators --------------------- *)

RECURSIVE ColSum(_, _, _)
\* sum of the values of rows lo..hi of a column, all of them defined
ColSum(col, lo, hi) == IF lo > hi THEN 0 ELSE col[hi].n + ColSum(col, lo, hi - 1)

\* a rolling mean that averages whatever rows of the window exist (min_periods=1)
ColRollingMeanPartial(col, k, w) ==
    LET S == { m \in Max(1, k - w + 1)..k : notna(col[m]) }
    IN IF S = {} THEN NaN
       ELSE Frac(ColSum([m \in 1..k |-> IF m \in S THEN col[m] ELSE Frac(0, 1)], 1, k),
                 Cardinality(S))

\* close_prices.rolling(w).mean() at row k of a column: NaN until the window
\* is full, and NaN when a row of the window is NaN
ColRollingMean(col, k, w) ==
    IF k >= w /\ (\A m \in (k - w + 1)..k : notna(col[m]))
    THEN Frac(ColSum(col, k - w + 1, k), w)
    ELSE NaN

\* .iloc[-1] of close_prices, ma7, ma20, ma60 and ma20_slope for a column
latest_close(col) == col[Len(col)]

latest_ma7(col) == ColRollingMean(col, Len(col), MA_SHORT)

latest_ma20(col) == ColRollingMean(col, Len(col), MA_MID)

\* the skip test reading a mean over the short window
latest_ma60_short_window(col) == ColRollingMean(col, Len(col), MA_SHORT)

latest_ma60(col) == ColRollingMean(col, Len(col), MA_LONG)

latest_slope(col) ==
    SlopePct(ColRollingMean(col, Len(col), MA_MID),
             IF Len(col) - SLOPE_PERIOD >= 1
             THEN ColRollingMean(col, Len(col) - SLOPE_PERIOD, MA_MID)
             ELSE NaN)

\* the dict of lines 73-82 for a ticker and its column
ScreeningRow(list, code, col) ==
    LET C1 == Le(SLOPE_THRESHOLD, latest_slope(col))
        C2 == Lt(latest_ma60(col), latest_ma20(col))
        C3 == Lt(latest_ma7(col), latest_ma20(col))
        C4 == Lt(latest_ma7(col), latest_close(col))
    IN [ Code |-> code, Name |-> ticker_map(list, code),
         Slope_MA20 |-> latest_slope(col),
         C1_Trend |-> C1, C2_Long |-> C2, C3_Pullback |-> C3, C4_Trigger |-> C4,
         All_Signal |-> C1 /\ C2 /\ C3 /\ C4 ]

\* a row reported only when all four conditions hold
ReportedOnAllSignal(row) == row.All_Signal

\* the test of line 72: only C1 decides whether the row is reported
Reported(row) == row.C1_Trend

(* ------------------------ screening.py: the sort ------------------------ *)

\* row a comes strictly before row b under ["All_Signal", "Slope_MA20"], both
\* descending (the slope of a reported row is never NaN)
Before(a, b) ==
    \/ a.All_Signal /\ ~b.All_Signal
    \/ a.All_Signal = b.All_Signal /\ Lt(b.Slope_MA20, a.Slope_MA20)

RECURSIVE InsertRowBeforeEqual(_, _)
\* an insertion that puts a row ahead of the rows equal to it on both keys
InsertRowBeforeEqual(rows, r) ==
    IF rows = <<>> THEN <<r>>
    ELSE IF Before(rows[Len(rows)], r) THEN Append(rows, r)
    ELSE Append(InsertRowBeforeEqual(SubSeq(rows, 1, Len(rows) - 1), r), rows[Len(rows)])

RECURSIVE InsertRow(_, _)
\* a row put into a sorted list behind every row that does not come after it
InsertRow(rows, r) ==
    IF rows = <<>> THEN <<r>>
    ELSE IF ~Before(r, rows[Len(rows)]) THEN Append(rows, r)
    ELSE Append(InsertRow(SubSeq(rows, 1, Len(rows) - 1), r), rows[Len(rows)])

RECURSIVE sort_values(_)
\* df.sort_values(["All_Signal", "Slope_MA20"], ascending=[False, False]): the
\* lexicographic sort of several keys, which keeps rows equal on all keys in
\* their order of appearance
sort_values(rows) ==
    IF rows = <<>> THEN <<>>
    ELSE InsertRow(sort_values(SubSeq(rows, 1, Len(rows) - 1)), rows[Len(rows)])

(* ----------------------- screening.py: the function --------------------- *)

\* get_data_and_screen_advanced(stock_list) is called
InitScreening ==
    /\ rules = TradingRules
    /\ start_date \in {4}
    /\ daily_data = <<>>
    /\ weekly_data = <<>>
    /\ pc = "download"
    /\ df = <<>>
    /\ i = 0
    /\ position = <<>>
    /\ entry_signal_date = NoDate
    /\ trades = <<>>
    /\ performance = <<>>
    /\ returned = <<>>
    /\ stock_list \in ShortLists
    /\ close_prices = <<>>
    /\ ticker = 0
    /\ result = <<>>
    /\ screened = <<>>

\* yf.download raises: the function returns an empty DataFrame (lines 27-29)
DownloadFails ==
    /\ pc = "download"
    /\ pc' = "download_failed"
    /\ screened' = <<>>
    /\ UNCHANGED <<stock_list, close_prices, ticker, result>>
    /\ UNCHANGED backtest

\* yf.download returns a frame and the indicators are computed (lines 22-49):
\* .iloc[-1] raises IndexError on a frame without rows, outside any try;
\* otherwise the loop starts at the first ticker
Download ==
    /\ pc = "download"
    /\ close_prices' \in Downloads(stock_list)
    /\ result' = <<>>
    /\ ticker' = 1
    /\ pc' = IF EmptyFrame(stock_list, close_prices') THEN "raised" ELSE "for_ticker"
    /\ UNCHANGED <<stock_list, screened>>
    /\ UNCHANGED backtest

\* the code of the ticker the loop is at
Code == stock_list[ticker].code

\* an iteration whose lookup latest_ma60[ticker] raises KeyError: the except
\* clause continues with the next ticker (lines 84-85)
ScreenLookupError ==
    /\ pc = "for_ticker" /\ ticker <= Len(stock_list)
    /\ Code \notin DOMAIN close_prices
    /\ ticker' = ticker + 1
    /\ UNCHANGED <<stock_list, close_prices, result, screened, pc>>
    /\ UNCHANGED backtest

\* an iteration on a ticker whose latest MA60 is NaN: continue (lines 54-55)
ScreenInsufficient ==
    /\ pc = "for_ticker" /\ ticker <= Len(stock_list)
    /\ Code \in DOMAIN close_prices
    /\ ~notna(latest_ma60(close_prices[Code]))
    /\ ticker' = ticker + 1
    /\ UNCHANGED <<stock_list, close_prices, result, screened, pc>>
    /\ UNCHANGED backtest

\* an iteration on a ticker that is evaluated and not reported
ScreenNotReported ==
    /\ pc = "for_ticker" /\ ticker <= Len(stock_list)
    /\ Code \in DOMAIN close_prices
    /\ notna(latest_ma60(close_prices[Code]))
    /\ ~Reported(ScreeningRow(stock_list, Code, close_prices[Code]))
    /\ ticker' = ticker + 1
    /\ UNCHANGED <<stock_list, close_prices, result, screened, pc>>
    /\ UNCHANGED backtest

\* an iteration on a ticker that is evaluated and reported: its row is appended
ScreenReported ==
    /\ pc = "for_ticker" /\ ticker <= Len(stock_list)
    /\ Code \in DOMAIN close_prices
    /\ notna(latest_ma60(close_prices[Code]))
    /\ Reported(ScreeningRow(stock_list, Code, close_prices[Code]))
    /\ result' = Append(result, ScreeningRow(stock_list, Code, close_prices[Code]))
    /\ ticker' = ticker + 1
    /\ UNCHANGED <<stock_list, close_prices, screened, pc>>
    /\ UNCHANGED backtest

\* after the loop: the frame of the rows, sorted unless it is empty (lines 87-95)
ScreenReturn ==
    /\ pc = "for_ticker" /\ ticker > Len(stock_list)
    /\ screened' = sort_values(result)
    /\ pc' = "screened"
    /\ UNCHANGED <<stock_list, close_prices, ticker, result>>
    /\ UNCHANGED backtest

NextScreening ==
    \/ DownloadFails
    \/ Download
    \/ ScreenLookupError
    \/ ScreenInsufficient
    \/ ScreenNotReported
    \/ ScreenReported
    \/ ScreenReturn

SpecScreening == InitScreening /\ [][NextScreening]_vars

(* ------------------ screening.py: the sort on its own ------------------- *)

\* the columns of full length whose ticker is reported
ReportedColumns ==
    { col \in Columns : /\ notna(latest_ma60(col))
                        /\ Reported(ScreeningRow(<<>>, "A", col)) }

\* get_data_and_screen_advanced at the end of its loop over the whole
\* universe, every ticker of which was reported: result holds their rows in
\* ticker order
InitSorting ==
    /\ rules = TradingRules
    /\ start_date \in {4}
    /\ daily_data = <<>>
    /\ weekly_data = <<>>
    /\ pc = "for_ticker"
    /\ df = <<>>
    /\ i = 0
    /\ position = <<>>
    /\ entry_signal_date = NoDate
    /\ trades = <<>>
    /\ performance = <<>>
    /\ returned = <<>>
    /\ stock_list \in StockLists \ ShortLists
    /\ close_prices \in [{ stock_list[k].code : k \in 1..Len(stock_list) } -> ReportedColumns]
    /\ ticker = Len(stock_list) + 1
    /\ result = [k \in 1..Len(stock_list) |->
                    ScreeningRow(stock_list, stock_list[k].code,
                                 close_prices[stock_list[k].code])]
    /\ screened = <<>>

NextSorting == ScreenReturn

SpecSorting == InitSorting /\ [][NextSorting]_vars

(* ------------------------- reading the state --------------------------- *)

\* index in df of the row dated d
IndexOf(d) == CHOOSE k \in 1..Len(df) : df[k].Date = d

\* the loop is about to run the iteration of python index i
AtBar == pc = "loop" /\ i < Len(df)

\* generate_signals has returned
SignalsFinished == pc \in {"calculate_performance", "print_performance", "returned"}

StopLossReasons == {"Stop Loss (Close)", "Stop Loss (Percentage)"}

\* this step appended exactly one trade and changed no earlier one
Recorded ==
    /\ Len(trades') = Len(trades) + 1
    /\ SubSeq(trades', 1, Len(trades)) = trades

LastTrade == trades'[Len(trades')]

\* the stop-loss test check_exit_condition applies under the rules' method
StopFires(r, current, pos) ==
    \/ r.stop_loss_method = "recent_low" /\ RecentLowStopHit(r, current)
    \/ r.stop_loss_method = "percentage" /\ PercentageStopHit(r, current, pos)

\* Close < MA_short with MA_short defined, written out on the row's numbers
CloseBelowMAShort(row) ==
    row.MA_short.d # 0 /\ row.Close * row.MA_short.d < row.MA_short.n

(* ------------------------------- C1 ------------------------------------- *)

\* C1: at most one position is open at any bar: the half-open intervals
\* [entry_date, exit_date) of the recorded trades do not overlap one another
\* nor the open position, no entry signal is pending while a position is
\* open, and a pending signal is always the previous row's, so that the next
\* iteration fills it and cannot set another one.
C1_OnePositionAtATime ==
    /\ Len(position) <= 1
    /\ \A a \in 1..Len(trades) : trades[a].entry_date <= trades[a].exit_date
    /\ \A a, b \in 1..Len(trades) :
          a < b => trades[a].exit_date <= trades[b].entry_date
    /\ position # <<>> =>
          /\ entry_signal_date = NoDate
          /\ \A a \in 1..Len(trades) : trades[a].exit_date <= position[1].entry_date
    /\ (pc = "loop" /\ entry_signal_date # NoDate) =>
          /\ position = <<>>
          /\ entry_signal_date = Row(i - 1).Date

\* a trade has been closed and a second position is open after it
C1_Witness == Len(trades) >= 1 /\ position # <<>>

(* ------------------------------- C2 ------------------------------------- *)

\* C2: under TradingRules(), an entry signal is pending only for a row on
\* which MA_short, MA_mid and MA_long are defined, MA_short < MA_mid, the
\* MA_mid slope is defined and above the threshold, MA_mid > MA_long and
\* High >= MA_short.
C2_EntryRequiresAllConditions ==
    (rules = TradingRules /\ pc = "loop" /\ entry_signal_date # NoDate) =>
        LET cur == df[IndexOf(entry_signal_date)]
        IN /\ notna(cur.MA_short) /\ notna(cur.MA_mid) /\ notna(cur.MA_long)
           /\ Lt(cur.MA_short, cur.MA_mid)
           /\ notna(cur.MA_mid_slope)
           /\ Lt(Frac(rules.ma_slope_threshold, 10), cur.MA_mid_slope)
           /\ Lt(cur.MA_long, cur.MA_mid)
           /\ Le(cur.MA_short, Frac(cur.High, 1))

(* ------------------------------- C3 ------------------------------------- *)

\* C3: whenever an entry signal is pending and the loop has a row to run, the
\* iteration opens a position dated on that row at its Open, clears the
\* signal and records nothing, whatever the row's indicators are; under
\* stop_loss_method 'recent_low' the stop-loss price of the position is the
\* previous row's Recent_Low times stop_loss_percentage.
C3_PendingEntryIsFilled ==
    [][ (AtBar /\ entry_signal_date # NoDate) =>
          /\ Len(position') = 1
          /\ position'[1].entry_date = Row(i).Date
          /\ position'[1].entry_price = Row(i).Open
          /\ rules.stop_loss_method = "recent_low" =>
                /\ notna(position'[1].stop_loss)
                /\ position'[1].stop_loss.n * Row(i - 1).Recent_Low.d * 100
                     = Row(i - 1).Recent_Low.n * rules.stop_loss_percentage
                         * position'[1].stop_loss.d
          /\ entry_signal_date' = NoDate
          /\ trades' = trades
          /\ i' = i + 1 ]_vars

\* a position was opened on the previous iteration's row although that row
\* itself does not satisfy the entry signal, and its Open differs from the
\* Recent_Low the stop-loss price was taken from
C3_Witness ==
    /\ pc = "loop" /\ i >= 3
    /\ position # <<>>
    /\ position[1].entry_date = Row(i - 1).Date
    /\ rules.stop_loss_method = "recent_low"
    /\ ~EntrySignal(rules, weekly_data, Row(i - 1), Row(i - 2))
    /\ Row(i - 2).Recent_Low.n # Row(i - 1).Open * Row(i - 2).Recent_Low.d
    /\ Row(i - 2).Recent_Low.n # Row(i - 1).Recent_Low.n

(* ------------------------------- C4 ------------------------------------- *)

\* C4: under stop_loss_method 'recent_low', on every iteration with an open
\* position a stop-loss exit is recorded exactly when the row's Close is at or
\* below the stop-loss price stored in the position when it was opened.
C4_StopLossAtPositionLevel ==
    [][ (AtBar /\ position # <<>> /\ rules.stop_loss_method = "recent_low") =>
          ( Le(Frac(Row(i).Close, 1), position[1].stop_loss)
              <=> (Recorded /\ LastTrade.exit_reason \in StopLossReasons) ) ]_vars

(* ------------------------------- C5 ------------------------------------- *)

\* C5: on every iteration on which the stop-loss test holds for the open
\* position, a trade with a stop-loss reason is recorded, dated on the current
\* row and priced at the current row's Close.
C5_StopLossExitAtCurrentClose ==
    [][ (AtBar /\ position # <<>> /\ StopFires(rules, Row(i), position[1])) =>
          /\ Recorded
          /\ LastTrade.exit_reason \in StopLossReasons
          /\ LastTrade.exit_date = Row(i).Date
          /\ LastTrade.exit_price = Row(i).Close ]_vars

(* ------------------------------- C6 ------------------------------------- *)

\* C6: with exit_method 'ma5_cross' and exit_timing 'next_open', on every
\* iteration with an open position on which the stop-loss test does not hold:
\* if MA_short is defined and Close < MA_short, the position is closed by one
\* trade with the MA-cross reason, filled at the next row's Open and date when
\* there is a next row and at this row's Close and date otherwise; if not,
\* the position stays open and nothing is recorded.
C6_MACrossExit ==
    [][ ( /\ AtBar /\ position # <<>>
          /\ rules.exit_method = "ma5_cross" /\ rules.exit_timing = "next_open"
          /\ ~StopFires(rules, Row(i), position[1]) ) =>
          IF CloseBelowMAShort(Row(i))
          THEN /\ Recorded
               /\ position' = <<>>
               /\ LastTrade.exit_reason = "MA_short Cross Exit"
               /\ LastTrade.entry_date = position[1].entry_date
               /\ IF i + 1 < Len(df)
                  THEN /\ LastTrade.exit_date = Row(i + 1).Date
                       /\ LastTrade.exit_price = Row(i + 1).Open
                  ELSE /\ LastTrade.exit_date = Row(i).Date
                       /\ LastTrade.exit_price = Row(i).Close
          ELSE trades' = trades /\ position' = position ]_vars

\* an MA-cross exit decided on the previous iteration's row was filled at this
\* row's Open, which differs from the deciding row's Close
C6_Witness ==
    /\ pc = "loop" /\ i >= 1 /\ i < Len(df)
    /\ rules.exit_timing = "next_open"
    /\ Len(trades) >= 1
    /\ trades[Len(trades)].exit_reason = "MA_short Cross Exit"
    /\ trades[Len(trades)].exit_date = Row(i).Date
    /\ trades[Len(trades)].exit_price = Row(i).Open
    /\ Row(i).Open # Row(i - 1).Close

(* ------------------------------- C7 ------------------------------------- *)

\* C7: on every iteration on which the row's Close is at or below the open
\* position's stop-loss price and is also below a defined MA_short, exactly
\* one trade is recorded and its reason is a stop-loss reason.
C7_StopLossBeforeMACross ==
    [][ ( /\ AtBar /\ position # <<>>
          /\ Le(Frac(Row(i).Close, 1), position[1].stop_loss)
          /\ CloseBelowMAShort(Row(i)) ) =>
          (Recorded /\ LastTrade.exit_reason \in StopLossReasons) ]_vars

(* ------------------------------- C8 ------------------------------------- *)

\* C8: once generate_signals has returned, no position is open.
C8_NoPositionLeftOpen == SignalsFinished => position = <<>>

(* ------------------------------- C9 ------------------------------------- *)

\* C9: every recorded trade has profit = exit_price - entry_price and
\* profit_pct = (exit_price / entry_price - 1) * 100, its entry_price is the
\* Open of the row dated entry_date and its exit_price is the Open or the
\* Close of the row dated exit_date.
C9_TradeArithmetic ==
    \A a \in 1..Len(trades) :
        LET t == trades[a]
        IN /\ t.profit = t.exit_price - t.entry_price
           /\ t.profit_pct.d # 0
           /\ t.profit_pct.n * t.entry_price
                = (t.exit_price - t.entry_price) * 100 * t.profit_pct.d
           /\ t.entry_price = df[IndexOf(t.entry_date)].Open
           /\ t.exit_price \in { df[IndexOf(t.exit_date)].Open,
                                 df[IndexOf(t.exit_date)].Close }

\* a losing trade and nothing else is recorded
C9_Witness == Len(trades) = 1 /\ trades[1].profit < 0

(* ------------------------------- C10 ------------------------------------ *)

\* C10: when run has returned, the value it handed back is the performance
\* summary if a trade was recorded and None otherwise.
C10_RunReturnsPerformance ==
    pc = "returned" =>
        returned = (IF Len(trades) > 0 THEN <<Performance(trades)>> ELSE <<>>)

(* ------------------------------- C11 ------------------------------------ *)

\* C11: when the data source has returned an empty series, run has ended with
\* the error raised by fetch_data and nothing was produced: no indicator table,
\* no row was processed, the trade list is empty, there is no performance
\* summary and nothing was returned.
C11_EmptySeriesFailsRun ==
    (pc # "fetch_data" /\ daily_data = <<>>) =>
        /\ pc = "raised"
        /\ weekly_data = <<>>
        /\ df = <<>> /\ i = 0
        /\ position = <<>> /\ entry_signal_date = NoDate
        /\ trades = <<>>
        /\ performance = <<>>
        /\ returned = <<>>

\* fetch_data has raised on an empty series
C11_Witness == pc = "raised" /\ daily_data = <<>>

(* ------------------------------- C12 ------------------------------------ *)

\* C12: for a fetched series that is not empty and has fewer than ma_long
\* rows, the run never ends in an error and never records a trade.
C12_ShortSeriesNoTrade ==
    (Len(daily_data) >= 1 /\ Len(daily_data) < rules.ma_long) =>
        (trades = <<>> /\ pc # "raised")

(* ------------------------------- C13 ------------------------------------ *)

\* C13: once calculate_performance has run, there is no summary record and the
\* call returned None exactly when the trade list is empty; for a non-empty
\* list the record exists, is what the call returned, and its total_trades is
\* the length of the list, at least 1 - so a record, even one whose
\* total_profit is 0, is never mistaken for "no trades".
C13_NoTradesSentinel ==
    pc \in {"print_performance", "returned"} =>
        /\ calculate_performance(trades) = performance
        /\ trades = <<>> <=> performance = <<>>
        /\ trades # <<>> =>
              /\ Len(performance) = 1
              /\ performance[1].total_trades = Len(trades)
              /\ performance[1].total_trades >= 1

\* calculate_performance has run on an empty trade list
C13_Witness == pc = "print_performance" /\ trades = <<>> /\ performance = <<>>

(* ------------------------------- C14 ------------------------------------ *)

\* C14: the max_drawdown of every summary is at most 0, and it is 0 when no
\* trade of the list has a negative profit.
C14_MaxDrawdownNotPositive ==
    performance # <<>> =>
        /\ performance[1].max_drawdown <= 0
        /\ (\A a \in 1..Len(trades) : trades[a].profit >= 0) =>
              performance[1].max_drawdown = 0

\* a summary of several trades, none losing and not all of the same profit
C14_Witness ==
    /\ performance # <<>>
    /\ Len(trades) >= 2
    /\ \A a \in 1..Len(trades) : trades[a].profit >= 0
    /\ trades[1].profit < trades[Len(trades)].profit
    /\ performance[1].max_drawdown = 0

(* ------------------------------- C15 ------------------------------------ *)

RECURSIVE InsertByExitDate(_, _)
\* a trade put into a list ordered by exit_date, after the trades of the same date
InsertByExitDate(ts, t) ==
    IF ts = <<>> THEN <<t>>
    ELSE IF ts[Len(ts)].exit_date <= t.exit_date THEN Append(ts, t)
    ELSE Append(InsertByExitDate(SubSeq(ts, 1, Len(ts) - 1), t), ts[Len(ts)])

RECURSIVE SortByExitDate(_)
\* the list in exit_date order
SortByExitDate(ts) ==
    IF ts = <<>> THEN <<>>
    ELSE InsertByExitDate(SortByExitDate(SubSeq(ts, 1, Len(ts) - 1)), ts[Len(ts)])

\* C15: the max_drawdown of every summary is the least drawdown of the
\* cumulative pass (running sum of profit, minus its running maximum) taken
\* over the trades in exit_date order, whatever the order they are stored in.
C15_DrawdownInExitDateOrder ==
    performance # <<>> =>
        performance[1].max_drawdown
            = MinDrawdown(SortByExitDate(trades), Len(trades))

(* ------------------------------- C16 ------------------------------------ *)

\* indices of the trades with profit > 0, and of those with profit <= 0
GainIndices == { a \in 1..Len(trades) : trades[a].profit > 0 }

LossIndices == { a \in 1..Len(trades) : trades[a].profit <= 0 }

RECURSIVE ProfitOver(_)
\* sum of the profits of the trades at a set of indices
ProfitOver(S) ==
    IF S = {} THEN 0
    ELSE LET a == CHOOSE x \in S : TRUE IN trades[a].profit + ProfitOver(S \ {a})

\* C16: in every summary winning + losing = total_trades, avg_profit is the
\* mean profit of the trades with profit > 0 (0 without any), avg_loss the mean
\* profit of the trades with profit <= 0 (0 without any), and profit_factor is
\* |avg_profit / avg_loss| when avg_loss is not 0 and 0 otherwise.
C16_ProfitFactor ==
    performance # <<>> =>
        LET p == performance[1]
        IN /\ p.winning_trades = Cardinality(GainIndices)
           /\ p.losing_trades = Cardinality(LossIndices)
           /\ p.winning_trades + p.losing_trades = p.total_trades
           /\ p.avg_profit.d # 0 /\ p.avg_loss.d # 0 /\ p.profit_factor.d # 0
           /\ p.avg_profit.n * Cardinality(GainIndices)
                = ProfitOver(GainIndices) * p.avg_profit.d
           /\ GainIndices = {} => p.avg_profit.n = 0
           /\ p.avg_loss.n * Cardinality(LossIndices)
                = ProfitOver(LossIndices) * p.avg_loss.d
           /\ LossIndices = {} => p.avg_loss.n = 0
           /\ IF p.avg_loss.n # 0
              THEN p.profit_factor.n * Abs(p.avg_profit.d * p.avg_loss.n)
                     = Abs(p.avg_profit.n * p.avg_loss.d) * p.profit_factor.d
              ELSE p.profit_factor.n = 0

\* a summary over winning and losing trades, one of them with profit 0, whose
\* profit factor is neither 0 nor 1
C16_Witness ==
    /\ performance # <<>>
    /\ GainIndices # {} /\ LossIndices # {}
    /\ \E a \in LossIndices : trades[a].profit = 0
    /\ performance[1].profit_factor.n # 0
    /\ performance[1].profit_factor.n # performance[1].profit_factor.d

(* ------------------------------- C17 ------------------------------------ *)

\* number of bars (rows that are not NaN) of a ticker's close column
Bars(code) ==
    Cardinality({ k \in 1..Len(close_prices[code]) : notna(close_prices[code][k]) })

\* the ticker has a close series, of fewer bars than the longest window
ShortHistory(code) ==
    /\ code \in DOMAIN close_prices
    /\ Bars(code) >= 1
    /\ Bars(code) < Max(MA_SHORT, Max(MA_MID, MA_LONG))

\* C17: a frame holding a ticker whose close series has fewer bars than
\* max(MA_SHORT, MA_MID, MA_LONG) does not make the function raise; the loop
\* iteration on such a ticker appends no row and goes on to the next ticker;
\* and the frame the function returns holds no row of such a ticker.
C17_ShortHistorySkipped ==
    [][ /\ (pc = "for_ticker" /\ ticker <= Len(stock_list) /\ ShortHistory(Code)) =>
              (pc' = "for_ticker" /\ ticker' = ticker + 1 /\ result' = result)
        /\ pc' = "raised" =>
              \A k \in 1..Len(stock_list) : ~ShortHistory(stock_list[k].code)'
        /\ pc' = "screened" =>
              \A k \in 1..Len(stock_list) : \A r \in 1..Len(screened') :
                  ShortHistory(stock_list[k].code) =>
                      screened'[r].Code # stock_list[k].code ]_vars

\* the function has returned a row for one ticker and none for another, whose
\* column is one bar short of the longest window and ends on a rise
C17_Witness ==
    /\ pc = "screened"
    /\ Len(screened) = 1
    /\ \E k \in 1..Len(stock_list) :
          LET code == stock_list[k].code
          IN /\ ShortHistory(code)
             /\ Bars(code) = MA_LONG - 1
             /\ close_prices[code][Len(close_prices[code]) - 1].n
                  < close_prices[code][Len(close_prices[code])].n
             /\ screened[1].Code # code

(* ------------------------------- C18 ------------------------------------ *)

\* the ticker's latest MA_long is defined: it is looked up and is not NaN
LongDefined(code) ==
    /\ code \in DOMAIN close_prices
    /\ latest_ma60(close_prices[code]).d # 0

\* the four conditions on the ticker's latest bar, on the numbers themselves
\* (all the values compared are defined and positive when MA_long is defined)
Cond1(code) ==
    LET sl == latest_slope(close_prices[code])
    IN sl.d # 0 /\ sl.n * SLOPE_THRESHOLD.d >= SLOPE_THRESHOLD.n * sl.d

Cond2(code) ==
    LET m20 == latest_ma20(close_prices[code])
        m60 == latest_ma60(close_prices[code])
    IN m20.n * m60.d > m60.n * m20.d

Cond3(code) ==
    LET m7 == latest_ma7(close_prices[code])
        m20 == latest_ma20(close_prices[code])
    IN m7.n * m20.d < m20.n * m7.d

Cond4(code) ==
    LET m7 == latest_ma7(close_prices[code])
        c == latest_close(close_prices[code])
    IN c.n * m7.d > m7.n * c.d

\* the rows of a frame for a ticker
RowsOf(rows, code) == { r \in 1..Len(rows) : rows[r].Code = code }

\* C18: in the frame the function returns, a ticker whose latest MA_long is
\* defined has a row exactly when C1 holds for it (and then exactly one),
\* whatever C2, C3 and C4 are; the row reports the four conditions as they
\* are, and its All_Signal is their conjunction.
C18_ReportedIffC1 ==
    pc = "screened" =>
        \A k \in 1..Len(stock_list) :
            LET code == stock_list[k].code
            IN LongDefined(code) =>
                 /\ Cardinality(RowsOf(screened, code)) = (IF Cond1(code) THEN 1 ELSE 0)
                 /\ \A r \in RowsOf(screened, code) :
                       /\ screened[r].C1_Trend = Cond1(code)
                       /\ screened[r].C2_Long = Cond2(code)
                       /\ screened[r].C3_Pullback = Cond3(code)
                       /\ screened[r].C4_Trigger = Cond4(code)
                       /\ screened[r].All_Signal =
                             (Cond1(code) /\ Cond2(code) /\ Cond3(code) /\ Cond4(code))

\* the returned frame holds a row whose four conditions all hold and a row
\* for which C1 holds while C2 and C3 both fail
C18_Witness ==
    /\ pc = "screened"
    /\ \E r \in 1..Len(screened) : screened[r].All_Signal
    /\ \E r \in 1..Len(screened) :
          /\ screened[r].C1_Trend
          /\ ~screened[r].C2_Long /\ ~screened[r].C3_Pullback

(* ------------------------------- C19 ------------------------------------ *)

\* place of a ticker in the input list
PlaceOf(code) == CHOOSE k \in 1..Len(stock_list) : stock_list[k].code = code

\* the slopes of two rows compared on their numbers (denominators are positive)
SlopeAbove(x, y) == x.Slope_MA20.n * y.Slope_MA20.d > y.Slope_MA20.n * x.Slope_MA20.d

SlopeEqual(x, y) == x.Slope_MA20.n * y.Slope_MA20.d = y.Slope_MA20.n * x.Slope_MA20.d

\* C19: the frame the function returns holds the rows collected by the loop,
\* each once, ordered so that a row with All_Signal comes before every row
\* without it, among rows of the same All_Signal a larger slope comes first,
\* and rows equal on both keys are in the order of the input ticker list.
C19_SortedBySignalThenSlope ==
    pc = "screened" =>
        /\ Len(screened) = Len(result)
        /\ \A r \in 1..Len(result) : \E q \in 1..Len(screened) : screened[q] = result[r]
        /\ \A a, b \in 1..Len(screened) :
              a < b =>
                LET x == screened[a]
                    y == screened[b]
                IN /\ y.All_Signal => x.All_Signal
                   /\ x.All_Signal = y.All_Signal => ~SlopeAbove(y, x)
                   /\ (x.All_Signal = y.All_Signal /\ SlopeEqual(x, y)) =>
                         PlaceOf(x.Code) < PlaceOf(y.Code)

\* the sort moved the last ticker's row, the only one with All_Signal, to the
\* front, ahead of two rows equal on both keys, and of the steepest row
C19_Witness ==
    /\ pc = "screened"
    /\ Len(screened) = 3
    /\ screened[1] = result[3]
    /\ screened[1].All_Signal /\ ~screened[2].All_Signal /\ ~screened[3].All_Signal
    /\ SlopeEqual(screened[2], screened[3])
    /\ SlopeAbove(screened[2], screened[1])

(* ------------------------------- C20 ------------------------------------ *)

\* the data source had nothing for the ticker (a column of NaN) or the lookup
\* of the ticker in the frame fails (no column)
BadTicker(code) ==
    \/ code \notin DOMAIN close_prices
    \/ \A k \in 1..Len(close_prices[code]) : close_prices[code][k].d = 0

\* every ticker of the list whose latest MA_long is defined and for which C1
\* holds has its row in the returned frame
OthersEvaluated ==
    \A k \in 1..Len(stock_list) :
        LET code == stock_list[k].code
        IN (LongDefined(code) /\ Cond1(code)) => RowsOf(screened, code) # {}

\* C20: when the download has returned and a ticker of the list is bad (no
\* data, or no column to look up), the function does not raise, and the frame
\* it returns holds the row of every other ticker for which C1 holds.
C20_BadTickerOnlySkipped ==
    (pc \in {"for_ticker", "screened", "raised"}
        /\ \E k \in 1..Len(stock_list) : BadTicker(stock_list[k].code)) =>
        /\ pc # "raised"
        /\ pc = "screened" => OthersEvaluated

(* ------------------------------- C21 ----------------------------------- *)

\* the bars of a table without its indicator columns
RawBars(tbl) ==
    [k \in 1..Len(tbl) |->
        [ Date |-> tbl[k].Date, Open |-> tbl[k].Open, High |-> tbl[k].High,
          Low |-> tbl[k].Low, Close |-> tbl[k].Close, Volume |-> tbl[k].Volume ]]

RECURSIVE SecondLoop(_, _, _, _)
\* the loop of generate_signals as a second, fresh instance runs it over table
\* d from loop state st, up to the end of the range or the first exception
SecondLoop(r, weekly, d, st) ==
    IF st.raised \/ st.i >= Len(d) THEN st
    ELSE LET current == d[st.i + 1]
             prev == d[st.i]
         IN IF st.position = <<>>
            THEN IF st.entry_signal_date = prev.Date
                 THEN SecondLoop(r, weekly, d,
                        [st EXCEPT !.position =
                                      << [ entry_date |-> current.Date,
                                           entry_price |-> current.Open,
                                           stop_loss |-> calculate_stop_loss(r, current.Open, prev),
                                           shares |-> 1 ] >>,
                                   !.entry_signal_date = NoDate,
                                   !.i = @ + 1])
                 ELSE SecondLoop(r, weekly, d,
                        [st EXCEPT !.entry_signal_date =
                                      IF EntrySignal(r, weekly, current, prev)
                                      THEN current.Date ELSE @,
                                   !.i = @ + 1])
            ELSE LET res == check_exit_condition(r, current, st.position[1])
                 IN IF res.raised THEN [st EXCEPT !.raised = TRUE]
                    ELSE IF res.should_exit
                    THEN SecondLoop(r, weekly, d,
                           [st EXCEPT !.trades =
                                         Append(@, MakeTrade(st.position[1],
                                                             ExitFill(r, d, st.i + 1),
                                                             res.exit_reason)),
                                      !.position = <<>>,
                                      !.i = @ + 1])
                    ELSE SecondLoop(r, weekly, d, [st EXCEPT !.i = @ + 1])

\* the run of a second fresh instance given the same rules, start date and
\* bars as the instance in the state: its indicators, then its loop from an
\* empty trade list
SecondRun ==
    LET bars == RawBars(daily_data)
    IN SecondLoop(rules, WeeklyIndicators(bars, rules),
                  FromStart(DailyIndicators(bars, rules), start_date),
                  [ i |-> 1, position |-> <<>>, entry_signal_date |-> NoDate,
                    trades |-> <<>>, raised |-> FALSE ])

C22_DefaultsAreScreeningParameters ==
    /\ TradingRulesDefaults.ma_short = 7
    /\ TradingRulesDefaults.ma_mid = 20
    /\ TradingRulesDefaults.ma_long = 60
    /\ TradingRulesDefaults.ma_slope_period = 5
    /\ TradingRulesDefaults.ma_slope_threshold = 12
    /\ (pc = "fetch_data" => TradingRulesDefaults = ScreeningParameters)

(* ------------------------------- C23 ----------------------------------- *)

\* C23: when the processing of a bar in generate_signals raises, no trade
\* recorded on an earlier bar is dropped or altered and none is recorded for
\* the failing bar: the step that ends the loop with the exception leaves the
\* trade list exactly as it stood after the last completed bar.
C23_RaiseKeepsTrades ==
    [][ (pc = "loop" /\ pc' = "raised") => trades' = trades ]_vars

\* a run that raised on a bar after a trade had been recorded, the trade
\* still in the list
C23_Witness ==
    /\ pc = "raised"
    /\ position # <<>>
    /\ Len(trades) >= 1
    /\ trades[1].exit_date < position[1].entry_date

(* ------------------------------- C24 ----------------------------------- *)

\* C24: the trade list is append-only: every step either leaves the list
\* unchanged or appends exactly one trade at the end, and no recorded trade is
\* modified or removed, also when generate_signals or calculate_performance is
\* invoked again on the same instance.
C24_TradesAppendOnly ==
    [][ \/ trades' = trades
        \/ /\ Len(trades') = Len(trades) + 1
           /\ SubSeq(trades', 1, Len(trades)) = trades ]_vars

\* generate_signals invoked again has appended to the trades of the first
\* invocation, which are still at the head of the list
C24_Witness ==
    /\ pc = "calculate_performance"
    /\ performance # <<>>
    /\ Len(trades) = 2 * performance[1].total_trades
    /\ Len(trades) >= 2

(* ------------------------------- C25 ----------------------------------- *)

\* the values the conditions C1..C4 read for a column are all defined
IndicatorsDefined(col) ==
    /\ notna(latest_close(col))
    /\ notna(latest_ma7(col))
    /\ notna(latest_ma20(col))
    /\ notna(latest_slope(col))

\* the tickers of the list the loop has gone through without skipping them
Evaluated ==
    { stock_list[t].code : t \in { u \in 1..Len(stock_list) :
          /\ u < ticker
          /\ stock_list[u].code \in DOMAIN close_prices
          /\ notna(latest_ma60(close_prices[stock_list[u].code])) } }

\* C25: in screening an undefined indicator never satisfies a condition: for
\* every ticker that is not skipped (MA_long defined on the latest bar) the
\* latest close, MA_short, MA_mid and the MA_mid slope are all defined, every
\* reported row carries a defined slope, and a condition reading an undefined
\* value is false.
C25_EvaluatedTickersDefined ==
    pc \in {"for_ticker", "screened"} =>
        /\ \A code \in Evaluated : IndicatorsDefined(close_prices[code])
        /\ \A r \in 1..Len(result) :
              /\ result[r].Code \in Evaluated
              /\ notna(result[r].Slope_MA20)
        /\ \A code \in DOMAIN close_prices :
              LET col == close_prices[code]
                  row == ScreeningRow(stock_list, code, col)
              IN /\ ~notna(latest_slope(col)) => ~row.C1_Trend
                 /\ (~notna(latest_ma20(col)) \/ ~notna(latest_ma60(col))) => ~row.C2_Long
                 /\ (~notna(latest_ma7(col)) \/ ~notna(latest_ma20(col))) => ~row.C3_Pullback
                 /\ (~notna(latest_ma7(col)) \/ ~notna(latest_close(col))) => ~row.C4_Trigger

\* a finished screening of two tickers: the first evaluated and reported, the
\* second skipped although its MA_mid is defined (its MA_long is not)
C25_Witness ==
    /\ pc = "screened"
    /\ Len(stock_list) = 2
    /\ DOMAIN close_prices = {"A", "B"}
    /\ Evaluated = {"A"}
    /\ Len(result) = 1
    /\ notna(latest_ma20(close_prices["B"]))
    /\ ~notna(latest_ma60(close_prices["B"]))

(* ------------------------------- C26 ----------------------------------- *)

\* C26: with stop_loss_method 'recent_low', stop_loss_percentage below 1 and
\* 0 < Low <= Close on every bar, the stop-loss test of check_exit_condition
\* holds on no bar (the bar's Recent_Low already includes its own Low), the
\* loop never ends in the exception behind that test, no trade has a
\* stop-loss exit reason, and under exit_method 'ma5_cross' every trade
\* carries the MA-cross reason.
C26_RecentLowStopNeverFires ==
    (/\ rules.stop_loss_method = "recent_low"
     /\ rules.stop_loss_percentage < 100
     /\ \A k \in 1..Len(daily_data) :
           0 < daily_data[k].Low /\ daily_data[k].Low <= daily_data[k].Close)
    => /\ \A k \in 1..Len(df) : ~RecentLowStopHit(rules, df[k])
       /\ (pc = "raised" => daily_data = <<>>)
       /\ \A t \in 1..Len(trades) :
             /\ trades[t].exit_reason \notin StopLossReasons
             /\ rules.exit_method = "ma5_cross"
                   => trades[t].exit_reason = "MA_short Cross Exit"

\* a losing trade under such rules, closed with the MA-cross reason
C26_Witness ==
    /\ rules.stop_loss_method = "recent_low"
    /\ rules.stop_loss_percentage < 100
    /\ Len(trades) = 1
    /\ trades[1].exit_price < trades[1].entry_price
    /\ trades[1].exit_reason = "MA_short Cross Exit"

(* ------------------------------- C27 ----------------------------------- *)

\* C27: a position is never closed on the bar on which it was opened: an
\* iteration that starts without a position (the fill bar among them)
\* records no trade, a trade is recorded only on a bar after the position's
\* entry bar, and every recorded trade has exit_date strictly later than
\* entry_date and holding_days > 0.
C27_NoExitOnFillBar ==
    [][ /\ position = <<>> => trades' = trades
        /\ trades' # trades =>
              /\ Recorded
              /\ position[1].entry_date < Row(i).Date
              /\ LastTrade.entry_date = position[1].entry_date
              /\ LastTrade.entry_date < LastTrade.exit_date
              /\ LastTrade.holding_days > 0 ]_vars

\* a trade closed on the bar right after its fill bar, the first bar on which
\* an exit is checked
C27_Witness ==
    /\ rules.exit_timing = "immediate"
    /\ Len(trades) >= 1
    /\ IndexOf(trades[1].exit_date) = IndexOf(trades[1].entry_date) + 1

(* ------------------------------- C28 ----------------------------------- *)

\* rows between an exit date and the earliest fill after it: the exit is
\* dated on the row after the deciding one under 'next_open' and on the
\* deciding row otherwise, and the earliest fill is two rows after the
\* deciding one
RowsToRefill == IF rules.exit_timing = "next_open" THEN 1 ELSE 2

\* C28: within one call of generate_signals on strictly increasing dates the
\* trades are appended in strictly increasing exit_date order and each
\* entry_date is strictly later than the previous trade's exit_date: after an
\* exit decided on bar i the earliest bar that sets a new entry signal is bar
\* i + 1 and the earliest re-entry fill is bar i + 2, for the recorded trades
\* as for a pending signal and the open position.
C28_TradesInExitDateOrder ==
    /\ \A t \in 1..(Len(trades) - 1) :
          /\ trades[t].exit_date < trades[t + 1].exit_date
          /\ trades[t].exit_date < trades[t + 1].entry_date
          /\ IndexOf(trades[t + 1].entry_date)
                >= IndexOf(trades[t].exit_date) + RowsToRefill
    /\ (trades # <<>> /\ position # <<>>) =>
          /\ trades[Len(trades)].exit_date < position[1].entry_date
          /\ IndexOf(position[1].entry_date)
                >= IndexOf(trades[Len(trades)].exit_date) + RowsToRefill
    /\ (trades # <<>> /\ position = <<>> /\ entry_signal_date # NoDate) =>
          IndexOf(entry_signal_date) + 1
                >= IndexOf(trades[Len(trades)].exit_date) + RowsToRefill

\* two trades under 'next_open', the second filled on the row after the
\* first one's exit row, two rows after the deciding row
C28_Witness ==
    /\ rules.exit_timing = "next_open"
    /\ Len(trades) = 2
    /\ IndexOf(trades[2].entry_date) = IndexOf(trades[1].exit_date) + 1

(* ------------------------------- C29 ----------------------------------- *)

\* C29: an entry signal confirmed on the final bar of the series is never
\* filled, it opens no position and produces no trade; the first bar of the
\* processed range (python index 0) is never evaluated for an entry signal,
\* so no signal is dated on it, and the earliest entry fill is python index 2
\* (the third row).
C29_FinalBarSignalNotFilled ==
    /\ (Len(df) >= 1 /\ entry_signal_date # NoDate) =>
          /\ entry_signal_date # df[1].Date
          /\ IndexOf(entry_signal_date) >= 2
    /\ position # <<>> => IndexOf(position[1].entry_date) >= 3
    /\ \A t \in 1..Len(trades) : IndexOf(trades[t].entry_date) >= 3
    /\ (SignalsFinished /\ Len(df) >= 1 /\ entry_signal_date = df[Len(df)].Date) =>
          /\ position = <<>>
          /\ \A t \in 1..Len(trades) : trades[t].entry_date < entry_signal_date

\* a finished call with a signal confirmed on the final bar and left
\* unfilled, after a trade filled on the third row
C29_Witness ==
    /\ SignalsFinished
    /\ Len(df) >= 3
    /\ entry_signal_date = df[Len(df)].Date
    /\ position = <<>>
    /\ Len(trades) = 1
    /\ IndexOf(trades[1].entry_date) = 3

(* ------------------------------- C30 ----------------------------------- *)

\* cumulative profit of the first k trades without the first trade's profit
ProfitAfterFirst(k) == SumProfit(trades, k) - trades[1].profit

\* the peak of that quantity over the first k trades
PeakAfterFirst(k) ==
    CHOOSE m \in { ProfitAfterFirst(j) : j \in 1..k } :
        \A j \in 1..k : ProfitAfterFirst(j) <= m

\* C30: drawdown is measured from the running peak of cumulative profit, and
\* the peak starts at the first trade's cumulative profit, not at zero: the
\* max_drawdown of a single trade is 0 even when the trade is a loss, and in
\* general the first trade's profit contributes nothing, max_drawdown being
\* the least drawdown of the cumulative profit counted after the first trade.
C30_PeakStartsAtFirstTrade ==
    performance # <<>> =>
        /\ Len(trades) = 1 => performance[1].max_drawdown = 0
        /\ \E k \in 1..Len(trades) :
              performance[1].max_drawdown = ProfitAfterFirst(k) - PeakAfterFirst(k)
        /\ \A k \in 1..Len(trades) :
              performance[1].max_drawdown <= ProfitAfterFirst(k) - PeakAfterFirst(k)

\* the summary of a single losing trade, with max_drawdown 0
C30_Witness ==
    /\ performance # <<>>
    /\ Len(trades) = 1
    /\ trades[1].profit < 0
    /\ performance[1].total_profit < 0
    /\ performance[1].max_drawdown = 0

====
